---- MODULE Spec2Model ----
(***************************************************************************)
(* Event model and codec layer of rasa.core.events.                        *)
(*                                                                         *)
(* Representation of Python values:                                        *)
(*   - an Event instance is a TLA+ record: `type' is the class's type_name *)
(*     and the other fields are the instance attributes;                   *)
(*   - the `parameters' dict handed to the decoders and the dict returned  *)
(*     by as_dict are TLA+ functions from key to value;                    *)
(*   - every other dict (metadata, data, intent, entity, parse_data) is    *)
(*     the set of its <<key, value>> items;                                *)
(*   - None is "None" where a text is expected, NoneTs where a number is   *)
(*     expected and NoneDict where a dict is expected;                     *)
(*   - a call's outcome is a record: kind "ok" with the returned events in *)
(*     val, kind "none" for a returned None, kind "raise" with the error.  *)
(***************************************************************************)
EXTENDS Integers, Sequences, FiniteSets, TLC

VARIABLES
    now,            \* the value time.time() returns at this moment
    pc,             \* what the caller did last
    ev,             \* the event the caller holds
    tsArg,          \* the timestamp argument ev's constructor was given
    rec,            \* the record (dict) the caller holds
    recFrom,        \* where rec comes from: "none", "as_dict", "caller"
    default,        \* the `default' class given to the last decode
    event_name,     \* the tag the last decode resolved
    event_class,    \* what resolve_by_type returned to the last decode
    out,            \* outcome of the last decode
    batch,          \* the list last given to deserialise_events
    key_order,      \* iteration order of the keys of a story line's parameters
    ev2,            \* the second event of a comparison
    cmp,            \* result of the last comparison
    mdArg,          \* the metadata argument ev's constructor was given
    story,          \* what ev.as_story_string() returned
    tracker,        \* the DialogueStateTracker the caller applies ev to
    trace,          \* the statements of ev.apply_to executed so far
    before          \* the tracker as it was when ev.apply_to was called

vars == <<now, pc, ev, tsArg, rec, recFrom, default, event_name, event_class,
          out, batch, key_order, ev2, cmp, mdArg, story, tracker, trace,
          before>>

----------------------------------------------------------------------------
(* Bounds *)

\* time.time() advances at most this many times
MaxTicks == 1
\* longest list given to deserialise_events
MaxBatch == 3

----------------------------------------------------------------------------
(* Python values *)

None == "None"
NoneTs == -1
NoneDict == {<<"None">>}

\* the epoch second of the first time.time() call; explicit timestamps lie
\* in the past of it
Epoch == 5

\* dict.get(key, default) of a dict given as its set of items
Get(d, k, dflt) ==
    IF \E p \in d : Len(p) = 2 /\ p[1] = k
    THEN (CHOOSE p \in d : Len(p) = 2 /\ p[1] = k)[2]
    ELSE dflt

\* parameters.get(key, default)
PGet(p, k, dflt) == IF k \in DOMAIN p THEN p[k] ELSE dflt

\* d.update(x): the keys of x win
Update(d, x) == x @@ d

\* truth value of an Optional[dict]
DictTruthy(d) == d # NoneDict /\ d # {}

\* utils.remove_none_values
remove_none_values(d) == {p \in d : p[2] # None}

\* jsonpickle.encode: injective on the JSON values used here
jsonpickle_encode(v) == <<"json", v>>

\* datetime.isoformat() of the modelled trigger dates 1 and 2
IsoStrings == <<"2020-01-01T10:00:00", "2020-01-02T10:00:00">>
DateTimes == DOMAIN IsoStrings
isoformat(dt) == IsoStrings[dt]

\* dateutil parser.parse: "TypeError" for None, "ValueError" for a text that
\* is no date, else the datetime
parser_parse(s) ==
    IF s = None THEN [kind |-> "raise", err |-> "TypeError", dt |-> 0]
    ELSE IF \E d \in DateTimes : IsoStrings[d] = s
         THEN [kind |-> "ok", err |-> "",
               dt |-> CHOOSE d \in DateTimes : IsoStrings[d] = s]
         ELSE [kind |-> "raise", err |-> "ValueError", dt |-> 0]

\* outcomes of a call
Ok(events) == [kind |-> "ok", err |-> "", val |-> events]
Nothing == [kind |-> "none", err |-> "", val |-> <<>>]
Raise(e) == [kind |-> "raise", err |-> e, val |-> <<>>]

----------------------------------------------------------------------------
(* Event classes: type_name of every subclass of Event *)

Variants == {"user", "bot", "slot", "restart", "rewind", "reset_slots",
             "reminder", "cancel_reminder", "undo", "export", "followup",
             "pause", "resume", "action", "agent", "form", "form_validation",
             "action_execution_rejected"}

\* the classes that inherit Event.__init__
PlainVariants == {"restart", "rewind", "reset_slots", "undo", "pause", "resume"}

\* Event.__init__ storing the metadata argument as given
Event_init_KeepsNone(self, timestamp, metadata, t) ==
    self @@ [timestamp |-> IF timestamp = NoneTs \/ timestamp = 0
                           THEN t ELSE timestamp,
             _metadata |-> metadata]

\* Event.__init__
Event_init(self, timestamp, metadata, t) ==
    self @@ [timestamp |-> IF timestamp = NoneTs \/ timestamp = 0
                           THEN t ELSE timestamp,
             _metadata |-> IF DictTruthy(metadata) THEN metadata ELSE {}]

\* Event.metadata
metadata_of(self) == IF "_metadata" \in DOMAIN self THEN self._metadata ELSE {}

\* cls(timestamp, metadata) for a class that inherits Event.__init__
Plain_init(cls, timestamp, metadata, t) ==
    Event_init([type |-> cls], timestamp, metadata, t)

UserUttered_init(text, intent, entities, parse_data, timestamp, input_channel, message_id, metadata, t) ==
    LET base == Event_init([type |-> "user",
                            text |-> text,
                            intent |-> IF DictTruthy(intent) THEN intent ELSE {},
                            entities |-> entities,
                            input_channel |-> input_channel,
                            message_id |-> message_id],
                           timestamp, metadata, t)
    IN base @@ [parse_data |->
                  IF DictTruthy(parse_data) THEN parse_data
                  ELSE {<<"intent", base.intent>>,
                        <<"entities", base.entities>>,
                        <<"text", text>>,
                        <<"message_id", message_id>>,
                        <<"metadata", metadata_of(base)>>}]

\* UserUttered._from_parse_data; parse_data is a dict here
UserUttered_from_parse_data(text, parse_data, timestamp, input_channel, message_id, metadata, t) ==
    UserUttered_init(text,
                     Get(parse_data, "intent", NoneDict),
                     Get(parse_data, "entities", <<>>),
                     parse_data, timestamp, input_channel, message_id,
                     metadata, t)

BotUttered_init(text, data, metadata, timestamp, t) ==
    Event_init([type |-> "bot", text |-> text,
                data |-> IF DictTruthy(data) THEN data ELSE {}],
               timestamp, metadata, t)

SlotSet_init(key, value, timestamp, metadata, t) ==
    Event_init([type |-> "slot", key |-> key, value |-> value],
               timestamp, metadata, t)

\* uuid is the text str(uuid.uuid1()) would return
ReminderScheduled_init(action_name, trigger_date_time, name, kill_on_user_message, timestamp, metadata, t, uuid) ==
    Event_init([type |-> "reminder",
                action_name |-> action_name,
                trigger_date_time |-> trigger_date_time,
                kill_on_user_message |-> kill_on_user_message,
                name |-> IF name # None THEN name ELSE uuid],
               timestamp, metadata, t)

ReminderCancelled_init(action_name, timestamp, metadata, t) ==
    Event_init([type |-> "cancel_reminder", action_name |-> action_name],
               timestamp, metadata, t)

StoryExported_init(path, timestamp, metadata, t) ==
    Event_init([type |-> "export", path |-> path], timestamp, metadata, t)

FollowupAction_init(name, timestamp, metadata, t) ==
    Event_init([type |-> "followup", action_name |-> name],
               timestamp, metadata, t)

ActionExecuted_init(action_name, policy, confidence, timestamp, metadata, t) ==
    Event_init([type |-> "action", action_name |-> action_name,
                policy |-> policy, confidence |-> confidence,
                unpredictable |-> FALSE],
               timestamp, metadata, t)

AgentUttered_init(text, data, timestamp, metadata, t) ==
    Event_init([type |-> "agent", text |-> text, data |-> data],
               timestamp, metadata, t)

Form_init(name, timestamp, metadata, t) ==
    Event_init([type |-> "form", name |-> name], timestamp, metadata, t)

FormValidation_init(validate, timestamp, metadata, t) ==
    Event_init([type |-> "form_validation", validate |-> validate],
               timestamp, metadata, t)

ActionExecutionRejected_init(action_name, policy, confidence, timestamp, metadata, t) ==
    Event_init([type |-> "action_execution_rejected",
                action_name |-> action_name,
                policy |-> policy, confidence |-> confidence],
               timestamp, metadata, t)

----------------------------------------------------------------------------
(* Dict codec: encoding *)

\* Event.as_dict
Event_as_dict(self) ==
    LET d == [event |-> self.type, timestamp |-> self.timestamp]
    IN IF metadata_of(self) # {}
       THEN Update(d, [metadata |-> metadata_of(self)])
       ELSE d

UserUttered_as_dict(self) ==
    Update(Event_as_dict(self),
           [text |-> self.text,
            parse_data |-> self.parse_data,
            input_channel |-> IF "input_channel" \in DOMAIN self
                              THEN self.input_channel ELSE None,
            message_id |-> IF "message_id" \in DOMAIN self
                           THEN self.message_id ELSE None,
            metadata |-> metadata_of(self)])

BotUttered_as_dict(self) ==
    Update(Event_as_dict(self),
           [text |-> self.text, data |-> self.data,
            metadata |-> metadata_of(self)])

SlotSet_as_dict(self) ==
    Update(Event_as_dict(self), [name |-> self.key, value |-> self.value])

\* ReminderScheduled._data_obj without the reminder's name
ReminderScheduled_data_obj_NoName(self) ==
    [action |-> self.action_name,
     date_time |-> isoformat(self.trigger_date_time),
     kill_on_user_msg |-> self.kill_on_user_message]

ReminderScheduled_data_obj(self) ==
    [action |-> self.action_name,
     date_time |-> isoformat(self.trigger_date_time),
     name |-> self.name,
     kill_on_user_msg |-> self.kill_on_user_message]

ReminderScheduled_as_dict(self) ==
    Update(Event_as_dict(self), ReminderScheduled_data_obj(self))

FollowupAction_as_dict(self) ==
    Update(Event_as_dict(self), [name |-> self.action_name])

ActionExecuted_as_dict(self) ==
    Update(Event_as_dict(self),
           [name |-> self.action_name,
            policy |-> IF "policy" \in DOMAIN self THEN self.policy ELSE None,
            confidence |-> IF "confidence" \in DOMAIN self
                           THEN self.confidence ELSE None])

AgentUttered_as_dict(self) ==
    Update(Event_as_dict(self), [text |-> self.text, data |-> self.data])

Form_as_dict(self) ==
    Update(Event_as_dict(self), [name |-> self.name])

FormValidation_as_dict(self) ==
    Update(Event_as_dict(self), [validate |-> self.validate])

ActionExecutionRejected_as_dict(self) ==
    Update(Event_as_dict(self),
           [name |-> self.action_name, policy |-> self.policy,
            confidence |-> self.confidence])

\* self.as_dict(): the method the class of self defines or inherits
as_dict(self) ==
    CASE self.type = "user" -> UserUttered_as_dict(self)
      [] self.type = "bot" -> BotUttered_as_dict(self)
      [] self.type = "slot" -> SlotSet_as_dict(self)
      [] self.type = "reminder" -> ReminderScheduled_as_dict(self)
      [] self.type = "followup" -> FollowupAction_as_dict(self)
      [] self.type = "action" -> ActionExecuted_as_dict(self)
      [] self.type = "agent" -> AgentUttered_as_dict(self)
      [] self.type = "form" -> Form_as_dict(self)
      [] self.type = "form_validation" -> FormValidation_as_dict(self)
      [] self.type = "action_execution_rejected" ->
             ActionExecutionRejected_as_dict(self)
      [] OTHER -> Event_as_dict(self)

----------------------------------------------------------------------------
(* Decoding.  t is time.time() and uuid the text of uuid.uuid1() during the *)
(* call.                                                                    *)

\* Event._from_story_string of a class that inherits Event.__init__
Event_from_story_string(cls, parameters, t) ==
    Ok(<<Plain_init(cls, PGet(parameters, "timestamp", NoneTs),
                    PGet(parameters, "metadata", NoneDict), t)>>)

\* Event._from_story_string inherited by BotUttered, AgentUttered,
\* FormValidation and ActionExecutionRejected: cls(timestamp, metadata) binds
\* the two values to the first two parameters of the class's __init__, and
\* its timestamp and metadata parameters keep their default None
Positional_from_story_string(cls, parameters, t) ==
    LET ts == PGet(parameters, "timestamp", NoneTs)
        md == PGet(parameters, "metadata", NoneDict)
        first == IF ts = NoneTs THEN None ELSE ts
    IN CASE cls = "bot" ->
              Ok(<<[type |-> "bot", text |-> first,
                    data |-> IF DictTruthy(md) THEN md ELSE {},
                    timestamp |-> t, _metadata |-> {}]>>)
         [] cls = "agent" ->
              Ok(<<[type |-> "agent", text |-> first, data |-> md,
                    timestamp |-> t, _metadata |-> {}]>>)
         [] cls = "form_validation" ->
              Ok(<<[type |-> "form_validation", validate |-> first,
                    timestamp |-> IF DictTruthy(md) THEN md ELSE t,
                    _metadata |-> {}]>>)
         [] cls = "action_execution_rejected" ->
              Ok(<<[type |-> "action_execution_rejected",
                    action_name |-> first, policy |-> md,
                    confidence |-> None,
                    timestamp |-> t, _metadata |-> {}]>>)

\* UserUttered._from_story_string: parse_data.get on a missing parse_data is
\* an AttributeError, which `except KeyError' does not catch
UserUttered_from_story_string(parameters, t) ==
    IF PGet(parameters, "parse_data", NoneDict) = NoneDict
    THEN Raise("AttributeError")
    ELSE Ok(<<UserUttered_from_parse_data(
                 PGet(parameters, "text", None),
                 parameters["parse_data"],
                 PGet(parameters, "timestamp", NoneTs),
                 PGet(parameters, "input_channel", None),
                 PGet(parameters, "message_id", None),
                 PGet(parameters, "metadata", NoneDict), t)>>)

\* BotUttered._from_parameters: no statement of the try block raises KeyError
BotUttered_from_parameters(parameters, t) ==
    Ok(<<BotUttered_init(PGet(parameters, "text", None),
                         PGet(parameters, "data", NoneDict),
                         PGet(parameters, "metadata", NoneDict),
                         PGet(parameters, "timestamp", NoneTs), t)>>)

\* SlotSet._from_parameters: no statement of the try block raises KeyError
SlotSet_from_parameters(parameters, t) ==
    Ok(<<SlotSet_init(PGet(parameters, "name", None),
                      PGet(parameters, "value", None),
                      PGet(parameters, "timestamp", NoneTs),
                      PGet(parameters, "metadata", NoneDict), t)>>)

ReminderScheduled_from_story_string(parameters, t, uuid) ==
    LET parsed == parser_parse(PGet(parameters, "date_time", None))
    IN IF parsed.kind = "raise" THEN Raise(parsed.err)
       ELSE Ok(<<ReminderScheduled_init(
                    PGet(parameters, "action", None),
                    parsed.dt,
                    PGet(parameters, "name", None),
                    PGet(parameters, "kill_on_user_msg", TRUE),
                    PGet(parameters, "timestamp", NoneTs),
                    PGet(parameters, "metadata", NoneDict), t, uuid)>>)

ReminderCancelled_from_story_string(parameters, t) ==
    Ok(<<ReminderCancelled_init(PGet(parameters, "action", None),
                                PGet(parameters, "timestamp", NoneTs),
                                PGet(parameters, "metadata", NoneDict), t)>>)

StoryExported_from_story_string(parameters, t) ==
    Ok(<<StoryExported_init(PGet(parameters, "path", None),
                            PGet(parameters, "timestamp", NoneTs),
                            PGet(parameters, "metadata", NoneDict), t)>>)

FollowupAction_from_story_string(parameters, t) ==
    Ok(<<FollowupAction_init(PGet(parameters, "name", None),
                             PGet(parameters, "timestamp", NoneTs),
                             PGet(parameters, "metadata", NoneDict), t)>>)

ActionExecuted_from_story_string(parameters, t) ==
    Ok(<<ActionExecuted_init(PGet(parameters, "name", None),
                             PGet(parameters, "policy", None),
                             PGet(parameters, "confidence", None),
                             PGet(parameters, "timestamp", NoneTs),
                             PGet(parameters, "metadata", NoneDict), t)>>)

AgentUttered_from_parameters(parameters, t) ==
    Ok(<<AgentUttered_init(PGet(parameters, "text", None),
                           PGet(parameters, "data", NoneDict),
                           PGet(parameters, "timestamp", NoneTs),
                           PGet(parameters, "metadata", NoneDict), t)>>)

Form_from_story_string(parameters, t) ==
    Ok(<<Form_init(PGet(parameters, "name", None),
                   PGet(parameters, "timestamp", NoneTs),
                   PGet(parameters, "metadata", NoneDict), t)>>)

FormValidation_from_parameters(parameters, t) ==
    Ok(<<FormValidation_init(PGet(parameters, "validate", None),
                             PGet(parameters, "timestamp", NoneTs),
                             PGet(parameters, "metadata", NoneDict), t)>>)

ActionExecutionRejected_from_parameters(parameters, t) ==
    Ok(<<ActionExecutionRejected_init(
            PGet(parameters, "name", None),
            PGet(parameters, "policy", None),
            PGet(parameters, "confidence", None),
            PGet(parameters, "timestamp", NoneTs),
            PGet(parameters, "metadata", NoneDict), t)>>)

\* SlotSet._from_story_string keeping the first item of the dict only
SlotSet_from_story_string_FirstOnly(parameters, order, t) ==
    IF Len(order) > 0
    THEN Ok(<<SlotSet_init(order[1], parameters[order[1]], NoneTs, NoneDict, t)>>)
    ELSE Nothing

\* SlotSet._from_story_string: one SlotSet per item of the dict, in the
\* dict's iteration order `order'; None for an empty dict
SlotSet_from_story_string(parameters, order, t) ==
    LET slots == [i \in 1..Len(order) |->
                     SlotSet_init(order[i], parameters[order[i]],
                                  NoneTs, NoneDict, t)]
    IN IF Len(slots) > 0 THEN Ok(slots) ELSE Nothing

\* cls._from_story_string(parameters): the method cls defines or inherits
from_story_string_of(cls, parameters, order, t, uuid) ==
    CASE cls = "user" -> UserUttered_from_story_string(parameters, t)
      [] cls = "slot" -> SlotSet_from_story_string(parameters, order, t)
      [] cls = "reminder" ->
             ReminderScheduled_from_story_string(parameters, t, uuid)
      [] cls = "cancel_reminder" ->
             ReminderCancelled_from_story_string(parameters, t)
      [] cls = "export" -> StoryExported_from_story_string(parameters, t)
      [] cls = "followup" -> FollowupAction_from_story_string(parameters, t)
      [] cls = "action" -> ActionExecuted_from_story_string(parameters, t)
      [] cls = "form" -> Form_from_story_string(parameters, t)
      [] cls \in {"bot", "agent", "form_validation",
                  "action_execution_rejected"} ->
             Positional_from_story_string(cls, parameters, t)
      [] OTHER -> Event_from_story_string(cls, parameters, t)

\* Event._from_parameters: the first event of cls._from_story_string
Event_from_parameters(cls, parameters, order, t, uuid) ==
    LET result == from_story_string_of(cls, parameters, order, t, uuid)
    IN CASE result.kind = "raise" -> result
         [] result.kind = "none" -> Raise("TypeError")
         [] OTHER -> IF Len(result.val) > 0
                     THEN Ok(<<result.val[1]>>) ELSE Nothing

\* cls._from_parameters(parameters): the method cls defines or inherits
from_parameters_of(cls, parameters, order, t, uuid) ==
    CASE cls = "bot" -> BotUttered_from_parameters(parameters, t)
      [] cls = "slot" -> SlotSet_from_parameters(parameters, t)
      [] cls = "agent" -> AgentUttered_from_parameters(parameters, t)
      [] cls = "form_validation" ->
             FormValidation_from_parameters(parameters, t)
      [] cls = "action_execution_rejected" ->
             ActionExecutionRejected_from_parameters(parameters, t)
      [] OTHER -> Event_from_parameters(cls, parameters, order, t, uuid)

----------------------------------------------------------------------------
(* Registry *)

\* resolve_by_type with the fallback consulted before the registered classes
resolve_by_type_FallbackFirst(type_name, dflt) ==
    IF dflt # None
    THEN [kind |-> "ok", cls |-> dflt]
    ELSE IF type_name \in Variants
         THEN [kind |-> "ok", cls |-> type_name]
         ELSE IF type_name = "topic"
              THEN [kind |-> "none", cls |-> None]
              ELSE [kind |-> "raise", cls |-> None]

\* resolve_by_type with the legacy tag tested after the fallback
resolve_by_type_TopicAfterDefault(type_name, dflt) ==
    IF type_name \in Variants
    THEN [kind |-> "ok", cls |-> type_name]
    ELSE IF dflt # None
         THEN [kind |-> "ok", cls |-> dflt]
         ELSE IF type_name = "topic"
              THEN [kind |-> "none", cls |-> None]
              ELSE [kind |-> "raise", cls |-> None]

\* Event.resolve_by_type: kind "ok" with the class, "none", or "raise"
resolve_by_type(type_name, dflt) ==
    IF type_name \in Variants
    THEN [kind |-> "ok", cls |-> type_name]
    ELSE IF type_name = "topic"
         THEN [kind |-> "none", cls |-> None]
         ELSE IF dflt # None
              THEN [kind |-> "ok", cls |-> dflt]
              ELSE [kind |-> "raise", cls |-> None]

\* Event.from_story_string
from_story_string(name, parameters, order, dflt, t, uuid) ==
    LET r == resolve_by_type(name, dflt)
    IN CASE r.kind = "raise" -> Raise("UnknownEventType")
         [] r.kind = "none" -> Nothing
         [] OTHER -> from_story_string_of(r.cls, parameters, order, t, uuid)

\* Event.from_parameters
from_parameters(parameters, dflt, t, uuid) ==
    IF PGet(parameters, "event", None) = None
    THEN Nothing
    ELSE LET r == resolve_by_type(parameters["event"], dflt)
         IN CASE r.kind = "raise" -> Raise("UnknownEventType")
              [] r.kind = "none" -> Nothing
              [] OTHER -> from_parameters_of(r.cls, parameters, <<>>, t, uuid)

\* deserialise_events: the loop over serialized_events from entry i on, with
\* the events appended so far; an error of from_parameters leaves the loop
RECURSIVE deserialise_from(_, _, _, _, _)

\* the loop putting each decoded event in front of the ones before it
deserialise_from_Prepend(serialized_events, i, deserialised, t, uuid) ==
    IF i > Len(serialized_events)
    THEN Ok(deserialised)
    ELSE LET e == serialized_events[i]
         IN IF "event" \in DOMAIN e
            THEN LET event == from_parameters(e, None, t, uuid)
                 IN CASE event.kind = "raise" -> event
                      [] event.kind = "ok" ->
                             deserialise_from(serialized_events, i + 1,
                                              <<event.val[1]>> \o deserialised,
                                              t, uuid)
                      [] OTHER ->
                             deserialise_from(serialized_events, i + 1,
                                              deserialised, t, uuid)
            ELSE deserialise_from(serialized_events, i + 1, deserialised,
                                  t, uuid)

deserialise_from(serialized_events, i, deserialised, t, uuid) ==
    IF i > Len(serialized_events)
    THEN Ok(deserialised)
    ELSE LET e == serialized_events[i]
         IN IF "event" \in DOMAIN e
            THEN LET event == from_parameters(e, None, t, uuid)
                 IN CASE event.kind = "raise" -> event
                      [] event.kind = "ok" ->
                             deserialise_from(serialized_events, i + 1,
                                              Append(deserialised, event.val[1]),
                                              t, uuid)
                      [] OTHER ->
                             deserialise_from(serialized_events, i + 1,
                                              deserialised, t, uuid)
            ELSE deserialise_from(serialized_events, i + 1, deserialised,
                                  t, uuid)

deserialise_events(serialized_events, t, uuid) ==
    deserialise_from(serialized_events, 1, <<>>, t, uuid)

----------------------------------------------------------------------------
(* Identity: __eq__ and __hash__.  hash(x) is given as the hashed object x  *)
(* itself, tagged with its shape, so two hashes are equal exactly when the  *)
(* hashed objects are; an int above 2^31 is given by its digits.            *)

UserUttered_members(self) ==
    <<self.text, Get(self.intent, "name", None),
      [i \in 1..Len(self.entities) |-> jsonpickle_encode(self.entities[i])]>>

UserUttered_eq(self, other) ==
    IF other.type # "user" THEN FALSE
    ELSE UserUttered_members(self) = UserUttered_members(other)

UserUttered_hash(self) ==
    <<"tuple:user", <<self.text, Get(self.intent, "name", None),
                      jsonpickle_encode(self.entities)>> >>

BotUttered_members(self) ==
    <<self.text, jsonpickle_encode(remove_none_values(self.data)),
      jsonpickle_encode(remove_none_values(metadata_of(self)))>>

BotUttered_eq(self, other) ==
    IF other.type # "bot" THEN FALSE
    ELSE BotUttered_members(self) = BotUttered_members(other)

BotUttered_hash(self) == <<"tuple:bot", BotUttered_members(self)>>

SlotSet_eq(self, other) ==
    IF other.type # "slot" THEN FALSE
    ELSE <<self.key, self.value>> = <<other.key, other.value>>

SlotSet_hash(self) ==
    <<"tuple:slot", <<self.key, jsonpickle_encode(self.value)>> >>

\* __eq__ of the classes that return isinstance(other, <own class>)
Singleton_eq(self, other) == other.type = self.type

\* __hash__ of the classes that hash a literal number
Singleton_hash(self) ==
    CASE self.type = "restart" -> <<"int", "32143124312">>
      [] self.type = "pause" -> <<"int", "32143124313">>
      [] self.type = "resume" -> <<"int", "32143124314">>
      [] self.type = "rewind" -> <<"int", "32143124315">>
      [] self.type = "reset_slots" -> <<"int", "32143124316">>
      [] self.type = "undo" -> <<"int", "32143124318">>
      [] self.type = "export" -> <<"int", "32143124319">>

ReminderScheduled_eq(self, other) ==
    IF other.type # "reminder" THEN FALSE
    ELSE self.name = other.name

ReminderScheduled_hash(self) ==
    <<"tuple:reminder", <<self.action_name,
                          isoformat(self.trigger_date_time),
                          self.kill_on_user_message, self.name>> >>

ReminderCancelled_eq(self, other) == other.type = "cancel_reminder"

ReminderCancelled_hash(self) == <<"str", self.action_name>>

StoryExported_eq(self, other) == other.type = "export"

FollowupAction_eq(self, other) ==
    IF other.type # "followup" THEN FALSE
    ELSE self.action_name = other.action_name

FollowupAction_hash(self) == <<"str", self.action_name>>

\* ActionExecuted.__eq__ comparing the policy as well
ActionExecuted_eq_Policy(self, other) ==
    IF other.type # "action" THEN FALSE
    ELSE <<self.action_name, self.policy>> = <<other.action_name, other.policy>>

ActionExecuted_eq(self, other) ==
    IF other.type # "action" THEN FALSE
    ELSE self.action_name = other.action_name

ActionExecuted_hash(self) == <<"str", self.action_name>>

AgentUttered_eq(self, other) ==
    IF other.type # "agent" THEN FALSE
    ELSE <<self.text, jsonpickle_encode(self.data)>>
             = <<other.text, jsonpickle_encode(other.data)>>

AgentUttered_hash(self) ==
    <<"tuple:agent", <<self.text, jsonpickle_encode(self.data)>> >>

Form_eq(self, other) ==
    IF other.type # "form" THEN FALSE
    ELSE self.name = other.name

Form_hash(self) == <<"str", self.name>>

FormValidation_eq(self, other) == other.type = "form_validation"

\* hash(True) is 1 and hash(False) is 0
FormValidation_hash(self) == <<"int", IF self.validate THEN "1" ELSE "0">>

ActionExecutionRejected_eq(self, other) ==
    IF other.type # "action_execution_rejected" THEN FALSE
    ELSE self.action_name = other.action_name

ActionExecutionRejected_hash(self) == <<"str", self.action_name>>

\* self == other: self.__eq__(other) of the class of self
Event_eq(self, other) ==
    CASE self.type = "user" -> UserUttered_eq(self, other)
      [] self.type = "bot" -> BotUttered_eq(self, other)
      [] self.type = "slot" -> SlotSet_eq(self, other)
      [] self.type = "reminder" -> ReminderScheduled_eq(self, other)
      [] self.type = "cancel_reminder" -> ReminderCancelled_eq(self, other)
      [] self.type = "export" -> StoryExported_eq(self, other)
      [] self.type = "form_validation" -> FormValidation_eq(self, other)
      [] self.type = "followup" -> FollowupAction_eq(self, other)
      [] self.type = "action" -> ActionExecuted_eq(self, other)
      [] self.type = "agent" -> AgentUttered_eq(self, other)
      [] self.type = "form" -> Form_eq(self, other)
      [] self.type = "action_execution_rejected" ->
             ActionExecutionRejected_eq(self, other)
      [] OTHER -> Singleton_eq(self, other)

\* hash(self): self.__hash__() of the class of self
Event_hash(self) ==
    CASE self.type = "user" -> UserUttered_hash(self)
      [] self.type = "bot" -> BotUttered_hash(self)
      [] self.type = "slot" -> SlotSet_hash(self)
      [] self.type = "reminder" -> ReminderScheduled_hash(self)
      [] self.type = "cancel_reminder" -> ReminderCancelled_hash(self)
      [] self.type = "followup" -> FollowupAction_hash(self)
      [] self.type = "action" -> ActionExecuted_hash(self)
      [] self.type = "agent" -> AgentUttered_hash(self)
      [] self.type = "form" -> Form_hash(self)
      [] self.type = "form_validation" -> FormValidation_hash(self)
      [] self.type = "action_execution_rejected" ->
             ActionExecutionRejected_hash(self)
      [] OTHER -> Singleton_hash(self)

----------------------------------------------------------------------------
(* Story-string codec: encoding.  A JSON text is given by its tokens: a     *)
(* string is <<"string", t>> with t the text between the quotes, and an     *)
(* object is the sequence of its <<key token, value token>> members.  A     *)
(* story string is a record: kind "text" with the leading name, whether a   *)
(* JSON object follows it and the members of that object; kind "none" is a  *)
(* returned None.                                                           *)

\* the texts with a character outside ASCII and what json.dumps writes for
\* them when ensure_ascii is on
AsciiEscapes ==
    << <<"écouter", "\\u00e9couter">>,
       <<"café", "caf\\u00e9">>,
       <<"rappel_é", "rappel_\\u00e9">> >>

\* json.dumps of a text between the quotes
json_escape(x, ensure_ascii) ==
    IF ensure_ascii /\ \E i \in DOMAIN AsciiEscapes : AsciiEscapes[i][1] = x
    THEN AsciiEscapes[CHOOSE i \in DOMAIN AsciiEscapes : AsciiEscapes[i][1] = x][2]
    ELSE x

\* json.loads of a text between the quotes
json_unescape(x) ==
    IF \E i \in DOMAIN AsciiEscapes : AsciiEscapes[i][2] = x
    THEN AsciiEscapes[CHOOSE i \in DOMAIN AsciiEscapes : AsciiEscapes[i][2] = x][1]
    ELSE x

\* json.dumps of an Optional[Text]
json_dumps_text(x, ensure_ascii) ==
    IF x = None THEN <<"null">> ELSE <<"string", json_escape(x, ensure_ascii)>>

\* json.dumps of a bool
json_dumps_bool(b) == IF b THEN <<"true">> ELSE <<"false">>

\* json.loads of a value token
json_loads(token) ==
    CASE token[1] = "null" -> None
      [] token[1] = "true" -> TRUE
      [] token[1] = "false" -> FALSE
      [] OTHER -> json_unescape(token[2])

StoryText(name, has_json, members) ==
    [kind |-> "text", name |-> name, json |-> has_json, props |-> members]
StoryNone == [kind |-> "none", name |-> None, json |-> FALSE, props |-> <<>>]

\* UserUttered.as_story_string with e2e=False: the intent name followed by
\* the entities as a JSON object, or the text of a message without intent
UserUttered_as_story_string(self) ==
    IF self.intent # {}
    THEN StoryText(Get(self.intent, "name", ""),
                   Len(self.entities) > 0,
                   [i \in 1..Len(self.entities) |->
                       <<json_dumps_text(Get(self.entities[i], "entity", None), FALSE),
                         json_dumps_text(Get(self.entities[i], "value", None), FALSE)>>])
    ELSE IF self.text = None THEN StoryNone
         ELSE StoryText(self.text, FALSE, <<>>)

BotUttered_as_story_string(self) == StoryNone

SlotSet_as_story_string(self) ==
    StoryText(self.type, TRUE,
              << <<json_dumps_text(self.key, FALSE),
                   json_dumps_text(self.value, FALSE)>> >>)

\* as_story_string of the classes that return their type_name
Bare_as_story_string(self) == StoryText(self.type, FALSE, <<>>)

ReminderScheduled_as_story_string(self) ==
    LET d == ReminderScheduled_data_obj(self)
        in_d(k) == k \in DOMAIN d
        keys == SelectSeq(<<"action", "date_time", "name", "kill_on_user_msg">>,
                          in_d)
    IN StoryText(self.type, TRUE,
                 [i \in 1..Len(keys) |->
                     <<json_dumps_text(keys[i], TRUE),
                       IF keys[i] = "kill_on_user_msg"
                       THEN json_dumps_bool(d[keys[i]])
                       ELSE json_dumps_text(d[keys[i]], TRUE)>>])

ReminderCancelled_as_story_string(self) ==
    StoryText(self.type, TRUE,
              << <<json_dumps_text("action", TRUE),
                   json_dumps_text(self.action_name, TRUE)>> >>)

FollowupAction_as_story_string(self) ==
    StoryText(self.type, TRUE,
              << <<json_dumps_text("name", TRUE),
                   json_dumps_text(self.action_name, TRUE)>> >>)

ActionExecuted_as_story_string(self) ==
    IF self.action_name = None THEN StoryNone
    ELSE StoryText(self.action_name, FALSE, <<>>)

AgentUttered_as_story_string(self) == StoryNone

Form_as_story_string(self) ==
    StoryText(self.type, TRUE,
              << <<json_dumps_text("name", TRUE),
                   json_dumps_text(self.name, TRUE)>> >>)

FormValidation_as_story_string(self) == StoryNone

ActionExecutionRejected_as_story_string(self) == StoryNone

\* self.as_story_string(): the method of the class of self
as_story_string(self) ==
    CASE self.type = "user" -> UserUttered_as_story_string(self)
      [] self.type = "bot" -> BotUttered_as_story_string(self)
      [] self.type = "slot" -> SlotSet_as_story_string(self)
      [] self.type = "reminder" -> ReminderScheduled_as_story_string(self)
      [] self.type = "cancel_reminder" -> ReminderCancelled_as_story_string(self)
      [] self.type = "followup" -> FollowupAction_as_story_string(self)
      [] self.type = "action" -> ActionExecuted_as_story_string(self)
      [] self.type = "agent" -> AgentUttered_as_story_string(self)
      [] self.type = "form" -> Form_as_story_string(self)
      [] self.type = "form_validation" -> FormValidation_as_story_string(self)
      [] self.type = "action_execution_rejected" ->
             ActionExecutionRejected_as_story_string(self)
      [] OTHER -> Bare_as_story_string(self)

\* the parameters a reader of the line gets from the JSON object after the
\* name: json.loads of the members, an empty dict for a bare name
story_parameters(members) ==
    [k \in {json_loads(members[i][1]) : i \in 1..Len(members)} |->
        json_loads(members[CHOOSE i \in 1..Len(members) :
                               json_loads(members[i][1]) = k][2])]

\* the iteration order of the keys of story_parameters(members)
story_key_order(members) ==
    [i \in 1..Len(members) |-> json_loads(members[i][1])]

----------------------------------------------------------------------------
(* The tracker the events are applied to, and Event.apply_to *)

\* rasa.core.actions.action.ACTION_LISTEN_NAME, the canonical listen action
ACTION_LISTEN_NAME == "action_listen"

\* the aggregate state of a tracker nothing was applied to
FreshTracker ==
    [latest_message |-> [type |-> None],
     latest_bot_utterance |-> [type |-> None],
     followup_action |-> None,
     latest_action_name |-> None,
     paused |-> FALSE,
     slots |-> {},
     active_form |-> None,
     form_validation |-> TRUE,
     rejected |-> None,
     exported |-> None,
     replayed |-> FALSE]

\* the aggregate states a caller applies an event to
PriorTrackers ==
    {[FreshTracker EXCEPT !.followup_action = f, !.paused = p,
                          !.latest_action_name = a, !.slots = s] :
        f \in {None, ACTION_LISTEN_NAME, "a"}, p \in BOOLEAN,
        a \in {None, "a"}, s \in {{}, {<<"a", "v1">>}}}

\* one statement of an apply_to body: the tracker member it uses and the
\* arguments it passes
Stmt(op, a, b, flag) == [op |-> op, a |-> a, b |-> b, flag |-> flag]

\* the effect on the tracker tr of statement st executed by the event self
tracker_exec(tr, self, st) ==
    CASE st.op = "latest_message" -> [tr EXCEPT !.latest_message = self]
      [] st.op = "latest_bot_utterance" ->
             [tr EXCEPT !.latest_bot_utterance = self]
      [] st.op = "clear_followup_action" ->
             [tr EXCEPT !.followup_action = None]
      [] st.op = "trigger_followup_action" ->
             [tr EXCEPT !.followup_action = st.a]
      [] st.op = "set_latest_action_name" ->
             [tr EXCEPT !.latest_action_name = st.a]
      [] st.op = "_set_slot" ->
             [tr EXCEPT !.slots = {p \in @ : p[1] # st.a} \cup {<<st.a, st.b>>}]
      [] st.op = "_reset" -> FreshTracker
      [] st.op = "_reset_slots" -> [tr EXCEPT !.slots = {}]
      [] st.op = "replay_events" -> [tr EXCEPT !.replayed = TRUE]
      [] st.op = "_paused" -> [tr EXCEPT !.paused = st.flag]
      [] st.op = "export_stories_to_file" -> [tr EXCEPT !.exported = st.a]
      [] st.op = "change_form_to" -> [tr EXCEPT !.active_form = st.a]
      [] st.op = "set_form_validation" ->
             [tr EXCEPT !.form_validation = st.flag]
      [] st.op = "reject_action" -> [tr EXCEPT !.rejected = st.a]

\* Event.apply_to, inherited by ReminderScheduled and ReminderCancelled
Event_apply_to(self) == <<>>

\* UserUttered.apply_to clearing the follow-up action first
UserUttered_apply_to_ClearFirst(self) ==
    << Stmt("clear_followup_action", None, None, FALSE),
       Stmt("latest_message", None, None, FALSE) >>

\* UserUttered.apply_to
UserUttered_apply_to(self) ==
    << Stmt("latest_message", None, None, FALSE),
       Stmt("clear_followup_action", None, None, FALSE) >>

\* BotUttered.apply_to
BotUttered_apply_to(self) ==
    << Stmt("latest_bot_utterance", None, None, FALSE) >>

\* SlotSet.apply_to
SlotSet_apply_to(self) ==
    << Stmt("_set_slot", self.key, self.value, FALSE) >>

\* Restarted.apply_to scheduling the listen action before the reset
Restarted_apply_to_TriggerFirst(self) ==
    << Stmt("trigger_followup_action", ACTION_LISTEN_NAME, None, FALSE),
       Stmt("_reset", None, None, FALSE) >>

\* Restarted.apply_to
Restarted_apply_to(self) ==
    << Stmt("_reset", None, None, FALSE),
       Stmt("trigger_followup_action", ACTION_LISTEN_NAME, None, FALSE) >>

\* UserUtteranceReverted.apply_to
UserUtteranceReverted_apply_to(self) ==
    << Stmt("_reset", None, None, FALSE),
       Stmt("replay_events", None, None, FALSE) >>

\* AllSlotsReset.apply_to
AllSlotsReset_apply_to(self) ==
    << Stmt("_reset_slots", None, None, FALSE) >>

\* ActionReverted.apply_to
ActionReverted_apply_to(self) ==
    << Stmt("_reset", None, None, FALSE),
       Stmt("replay_events", None, None, FALSE) >>

\* StoryExported.apply_to
StoryExported_apply_to(self) ==
    IF self.path # None /\ self.path # ""
    THEN << Stmt("export_stories_to_file", self.path, None, FALSE) >>
    ELSE <<>>

\* FollowupAction.apply_to
FollowupAction_apply_to(self) ==
    << Stmt("trigger_followup_action", self.action_name, None, FALSE) >>

\* ConversationPaused.apply_to
ConversationPaused_apply_to(self) ==
    << Stmt("_paused", None, None, TRUE) >>

\* ConversationResumed.apply_to
ConversationResumed_apply_to(self) ==
    << Stmt("_paused", None, None, FALSE) >>

\* ActionExecuted.apply_to
ActionExecuted_apply_to(self) ==
    << Stmt("set_latest_action_name", self.action_name, None, FALSE),
       Stmt("clear_followup_action", None, None, FALSE) >>

\* AgentUttered.apply_to
AgentUttered_apply_to(self) == <<>>

\* Form.apply_to
Form_apply_to(self) ==
    << Stmt("change_form_to", self.name, None, FALSE) >>

\* FormValidation.apply_to
FormValidation_apply_to(self) ==
    << Stmt("set_form_validation", None, None, self.validate) >>

\* ActionExecutionRejected.apply_to
ActionExecutionRejected_apply_to(self) ==
    << Stmt("reject_action", self.action_name, None, FALSE) >>

\* self.apply_to: the method of self's class
apply_to(self) ==
    CASE self.type = "user" -> UserUttered_apply_to(self)
      [] self.type = "bot" -> BotUttered_apply_to(self)
      [] self.type = "slot" -> SlotSet_apply_to(self)
      [] self.type = "restart" -> Restarted_apply_to(self)
      [] self.type = "rewind" -> UserUtteranceReverted_apply_to(self)
      [] self.type = "reset_slots" -> AllSlotsReset_apply_to(self)
      [] self.type = "undo" -> ActionReverted_apply_to(self)
      [] self.type = "export" -> StoryExported_apply_to(self)
      [] self.type = "followup" -> FollowupAction_apply_to(self)
      [] self.type = "pause" -> ConversationPaused_apply_to(self)
      [] self.type = "resume" -> ConversationResumed_apply_to(self)
      [] self.type = "action" -> ActionExecuted_apply_to(self)
      [] self.type = "agent" -> AgentUttered_apply_to(self)
      [] self.type = "form" -> Form_apply_to(self)
      [] self.type = "form_validation" -> FormValidation_apply_to(self)
      [] self.type = "action_execution_rejected" ->
             ActionExecutionRejected_apply_to(self)
      [] OTHER -> Event_apply_to(self)

----------------------------------------------------------------------------
(* Inputs of the callers *)

TimestampArgs == {NoneTs, 0, 1}
MetadataArgs == {NoneDict, {}, {<<"k", "v">>}}
Texts == {None, "hi"}
ActionNames == {"a", "écouter"}
Policies == {None, "policy_1"}
Confidences == {None, "0.9"}
Intents == {NoneDict, {<<"name", "greet">>}, {<<"name", "bye">>}}
EntityLists == {<<>>, << {<<"entity", "city">>, <<"value", "rome">>} >>}
ParseDatas == {NoneDict, {<<"intent", {<<"name", "bye">>}>>, <<"entities", <<>> >>}}
Channels == {<<None, None>>, <<"rest", "m1">>}
BotDatas == {NoneDict, {<<"x", "y">>}, {<<"x", "y">>, <<"z", None>>}}
BotMetadataArgs == MetadataArgs \cup {{<<"k", "v">>, <<"n", None>>}}
SlotValues == {None, "v1", "café"}
ReminderNames == {None, "r1", "rappel_é"}
UUIDs == {"uuid-1", "uuid-2"}
FormNames == {None, "f1", "f2"}
Paths == {None, "out.md"}

\* the `default' argument of the decoders: no class, or a subclass of Event
Defaults == Variants \cup {None}

NoEvent == [type |-> None]
NoOutcome == [kind |-> "idle", err |-> "", val |-> <<>>]
NoCmp == [eq |-> FALSE, hash_eq |-> FALSE]

\* every constructor call of the callers at time t: the event it returns
\* and the timestamp and metadata arguments it was given
Constructions(t) ==
    UNION {
      {[ev |-> UserUttered_init(x, i, e, p, ts, c[1], c[2], md, t), ts |-> ts, md |-> md] :
          x \in Texts, i \in Intents, e \in EntityLists, p \in ParseDatas,
          c \in Channels, md \in MetadataArgs} \cup
      {[ev |-> BotUttered_init(x, d, md, ts, t), ts |-> ts, md |-> md] :
          x \in Texts, d \in BotDatas, md \in BotMetadataArgs} \cup
      {[ev |-> SlotSet_init(k, v, ts, md, t), ts |-> ts, md |-> md] :
          k \in ActionNames, v \in SlotValues, md \in MetadataArgs} \cup
      {[ev |-> Plain_init(cls, ts, md, t), ts |-> ts, md |-> md] :
          cls \in PlainVariants, md \in MetadataArgs} \cup
      {[ev |-> ReminderScheduled_init(a, d[1], n, d[2], ts, md, t, u), ts |-> ts, md |-> md] :
          a \in ActionNames, d \in DateTimes \X BOOLEAN, n \in ReminderNames,
          u \in UUIDs, md \in MetadataArgs} \cup
      {[ev |-> ReminderCancelled_init(a, ts, md, t), ts |-> ts, md |-> md] :
          a \in ActionNames, md \in MetadataArgs} \cup
      {[ev |-> StoryExported_init(f, ts, md, t), ts |-> ts, md |-> md] :
          f \in Paths, md \in MetadataArgs} \cup
      {[ev |-> FollowupAction_init(a, ts, md, t), ts |-> ts, md |-> md] :
          a \in ActionNames, md \in MetadataArgs} \cup
      {[ev |-> ActionExecuted_init(a, pol, c, ts, md, t), ts |-> ts, md |-> md] :
          a \in ActionNames, pol \in Policies, c \in Confidences,
          md \in MetadataArgs} \cup
      {[ev |-> AgentUttered_init(x, d, ts, md, t), ts |-> ts, md |-> md] :
          x \in Texts, d \in {NoneDict, {<<"x", "y">>}}, md \in MetadataArgs} \cup
      {[ev |-> Form_init(n, ts, md, t), ts |-> ts, md |-> md] :
          n \in FormNames, md \in MetadataArgs} \cup
      {[ev |-> FormValidation_init(b, ts, md, t), ts |-> ts, md |-> md] :
          b \in BOOLEAN, md \in MetadataArgs} \cup
      {[ev |-> ActionExecutionRejected_init(a, pol, c, ts, md, t), ts |-> ts, md |-> md] :
          a \in ActionNames, pol \in Policies, c \in Confidences,
          md \in MetadataArgs}
      : ts \in TimestampArgs }

\* the fields a caller puts next to `event' in a record it decodes
RecordFields ==
    { [name |-> "a", value |-> "v1"],
      [value |-> "v1"],
      [timestamp |-> 0, name |-> "a"],
      [timestamp |-> 1, metadata |-> {<<"k", "v">>}, name |-> "b"],
      [metadata |-> NoneDict, name |-> "a"],
      [action |-> "a", date_time |-> "2020-01-01T10:00:00", name |-> "r1"],
      [action |-> "a"],
      [action |-> "a", date_time |-> "soon"],
      [text |-> "hi", parse_data |-> {<<"intent", {<<"name", "greet">>}>>}],
      [validate |-> TRUE, timestamp |-> 1] }

\* the tags of the records a caller decodes
RecordTags == Variants \cup {"topic", "bogus"}

\* the records a caller decodes
Records ==
    {[event |-> tag] : tag \in RecordTags \cup {None}} \cup
    {Update(f, [event |-> tag]) : tag \in RecordTags, f \in RecordFields} \cup
    RecordFields

\* the entries of the lists given to deserialise_events
BatchEntries ==
    { [event |-> "slot", name |-> "a", value |-> "v1"],
      [event |-> "slot", name |-> "b", value |-> "v2"],
      [event |-> "bogus"],
      [event |-> "topic"],
      [name |-> "a", value |-> "v1"],
      [event |-> "reminder", action |-> "a"],
      [event |-> "action", name |-> "a", timestamp |-> 1] }

Batches == UNION {[1..n -> BatchEntries] : n \in 0..MaxBatch}

\* the event names of story lines: every registered name, the legacy tag and
\* an unknown one
StoryNames == Variants \cup {"topic", "bogus"}

\* parameters of story lines with the iteration order of their keys
StoryParameters ==
    { [p |-> <<>>, order |-> <<>>],
      [p |-> [a |-> "v1"], order |-> <<"a">>],
      [p |-> [a |-> "v1", b |-> "v2"], order |-> <<"a", "b">>],
      [p |-> [a |-> "v1", b |-> "v2"], order |-> <<"b", "a">>],
      [p |-> [name |-> "a"], order |-> <<"name">>],
      [p |-> [metadata |-> NoneDict], order |-> <<"metadata">>],
      [p |-> [timestamp |-> 1, metadata |-> {<<"k", "v">>}],
       order |-> <<"timestamp", "metadata">>],
      [p |-> [action |-> "a", date_time |-> "2020-01-02T10:00:00",
              name |-> "r1", kill_on_user_msg |-> FALSE],
       order |-> <<"action", "date_time", "name", "kill_on_user_msg">>],
      [p |-> [text |-> "hi", parse_data |-> {<<"intent", {<<"name", "greet">>}>>}],
       order |-> <<"text", "parse_data">>] }

----------------------------------------------------------------------------
(* The callers *)

Init ==
    /\ now = Epoch
    /\ pc = "idle"
    /\ ev = NoEvent
    /\ tsArg = NoneTs
    /\ rec = <<>>
    /\ recFrom = "none"
    /\ default = None
    /\ event_name = None
    /\ event_class = None
    /\ out = NoOutcome
    /\ batch = <<>>
    /\ key_order = <<>>
    /\ ev2 = NoEvent
    /\ cmp = NoCmp
    /\ mdArg = NoneDict
    /\ story = StoryNone
    /\ tracker = FreshTracker
    /\ trace = <<>>
    /\ before = FreshTracker

\* time passes between two calls
Tick ==
    /\ pc \in {"idle", "encoded"}
    /\ now < Epoch + MaxTicks
    /\ now' = now + 1
    /\ UNCHANGED <<pc, ev, tsArg, rec, recFrom, default, event_name,
                   event_class, out, batch, key_order, ev2, cmp,
                   mdArg, story, tracker, trace, before>>

\* a caller constructs an event
Construct ==
    /\ pc = "idle"
    /\ \E c \in Constructions(now) :
          /\ ev' = c.ev
          /\ tsArg' = c.ts
          /\ mdArg' = c.md
    /\ pc' = "constructed"
    /\ UNCHANGED <<now, rec, recFrom, default, event_name, event_class, out,
                   batch, key_order, ev2, cmp, story, tracker, trace, before>>

\* the caller encodes the event it holds: rec = ev.as_dict()
AsDict ==
    /\ pc = "constructed"
    /\ rec' = as_dict(ev)
    /\ recFrom' = "as_dict"
    /\ pc' = "encoded"
    /\ UNCHANGED <<now, ev, tsArg, default, event_name, event_class, out,
                   batch, key_order, ev2, cmp,
                   mdArg, story, tracker, trace, before>>

\* a caller holds a record from storage or the network
Supply ==
    /\ pc = "idle"
    /\ rec' \in Records
    /\ recFrom' = "caller"
    /\ pc' = "supplied"
    /\ UNCHANGED <<now, ev, tsArg, default, event_name, event_class, out,
                   batch, key_order, ev2, cmp,
                   mdArg, story, tracker, trace, before>>

\* the caller decodes the record it holds: out = Event.from_parameters(rec, d)
FromParameters ==
    /\ pc \in {"encoded", "supplied"}
    /\ \E d \in Defaults, u \in UUIDs :
          /\ default' = d
          /\ event_name' = PGet(rec, "event", None)
          /\ event_class' = IF PGet(rec, "event", None) = None THEN None
                            ELSE resolve_by_type(rec["event"], d).cls
          /\ out' = from_parameters(rec, d, now, u)
    /\ pc' = "decoded"
    /\ UNCHANGED <<now, ev, tsArg, rec, recFrom, batch, key_order, ev2, cmp,
                   mdArg, story, tracker, trace, before>>

\* a caller decodes a story line: out = Event.from_story_string(name, p, d)
FromStoryString ==
    /\ pc = "idle"
    /\ \E n \in StoryNames, sp \in StoryParameters, d \in Defaults,
          u \in UUIDs :
          /\ rec' = sp.p
          /\ key_order' = sp.order
          /\ default' = d
          /\ event_name' = n
          /\ event_class' = resolve_by_type(n, d).cls
          /\ out' = from_story_string(n, sp.p, sp.order, d, now, u)
    /\ recFrom' = "caller"
    /\ pc' = "story_decoded"
    /\ UNCHANGED <<now, ev, tsArg, batch, ev2, cmp,
                   mdArg, story, tracker, trace, before>>

\* a caller loads a conversation: out = deserialise_events(batch)
Deserialise ==
    /\ pc = "idle"
    /\ \E b \in Batches, u \in UUIDs :
          /\ batch' = b
          /\ out' = deserialise_events(b, now, u)
    /\ pc' = "deserialised"
    /\ UNCHANGED <<now, ev, tsArg, rec, recFrom, default, event_name,
                   event_class, key_order, ev2, cmp,
                   mdArg, story, tracker, trace, before>>

\* the caller constructs a second event and evaluates ev == ev2 and
\* hash(ev) == hash(ev2)
Compare ==
    /\ pc = "constructed"
    /\ \E c \in Constructions(now) :
          /\ ev2' = c.ev
          /\ cmp' = [eq |-> Event_eq(ev, c.ev),
                     hash_eq |-> Event_hash(ev) = Event_hash(c.ev)]
    /\ pc' = "compared"
    /\ UNCHANGED <<now, ev, tsArg, rec, recFrom, default, event_name,
                   event_class, out, batch, key_order,
                   mdArg, story, tracker, trace, before>>

\* a caller loads an event pickled by a version whose Event.__init__ did
\* not set _metadata: the instance has every attribute but that one
LoadPickled ==
    /\ pc = "idle"
    /\ \E c \in Constructions(now) :
          ev' = [k \in DOMAIN c.ev \ {"_metadata"} |-> c.ev[k]]
    /\ tsArg' = NoneTs
    /\ mdArg' = NoneDict
    /\ pc' = "constructed"
    /\ UNCHANGED <<now, rec, recFrom, default, event_name, event_class, out,
                   batch, key_order, ev2, cmp, story, tracker, trace, before>>

\* a story writer encodes the event it holds: story = ev.as_story_string()
AsStoryString ==
    /\ pc = "constructed"
    /\ story' = as_story_string(ev)
    /\ pc' = "story_encoded"
    /\ UNCHANGED <<now, ev, tsArg, rec, recFrom, default, event_name,
                   event_class, out, batch, key_order, ev2, cmp, mdArg,
                   tracker, trace, before>>

\* a story reader splits the written line into its name and its JSON
\* object and decodes them: out = Event.from_story_string(name, params, d).
\* User lines are read by their intent, not through from_story_string.
FromEncodedStory ==
    /\ pc = "story_encoded"
    /\ story.kind = "text"
    /\ ev.type # "user"
    /\ \E d \in {None, "action"}, u \in UUIDs :
          /\ default' = d
          /\ out' = from_story_string(story.name, story_parameters(story.props),
                                      story_key_order(story.props), d, now, u)
          /\ event_class' = resolve_by_type(story.name, d).cls
    /\ rec' = story_parameters(story.props)
    /\ key_order' = story_key_order(story.props)
    /\ event_name' = story.name
    /\ recFrom' = "as_story_string"
    /\ pc' = "story_decoded"
    /\ UNCHANGED <<now, ev, tsArg, batch, ev2, cmp, mdArg, story, tracker,
                   trace, before>>

\* the caller takes the tracker it will apply the event to
TakeTracker ==
    /\ pc = "constructed"
    /\ tracker' \in PriorTrackers
    /\ before' = tracker'
    /\ trace' = <<>>
    /\ pc' = IF apply_to(ev) = <<>> THEN "applied" ELSE "applying"
    /\ UNCHANGED <<now, ev, tsArg, rec, recFrom, default, event_name,
                   event_class, out, batch, key_order, ev2, cmp, mdArg,
                   story>>

\* ev.apply_to(tracker) executes its next statement
ApplyStep ==
    /\ pc = "applying"
    /\ LET body == apply_to(ev)
           st == body[Len(trace) + 1]
       IN /\ tracker' = tracker_exec(tracker, ev, st)
          /\ trace' = Append(trace, st.op)
          /\ pc' = IF Len(trace) + 1 = Len(body) THEN "applied"
                   ELSE "applying"
    /\ UNCHANGED <<now, ev, tsArg, rec, recFrom, default, event_name,
                   event_class, out, batch, key_order, ev2, cmp, mdArg,
                   story, before>>

\* the caller drops what it holds
Return ==
    /\ pc \in {"decoded", "story_decoded", "deserialised", "compared",
              "story_encoded", "applied"}
    /\ pc' = "idle"
    /\ ev' = NoEvent
    /\ tsArg' = NoneTs
    /\ rec' = <<>>
    /\ recFrom' = "none"
    /\ default' = None
    /\ event_name' = None
    /\ event_class' = None
    /\ out' = NoOutcome
    /\ batch' = <<>>
    /\ key_order' = <<>>
    /\ ev2' = NoEvent
    /\ cmp' = NoCmp
    /\ mdArg' = NoneDict
    /\ story' = StoryNone
    /\ tracker' = FreshTracker
    /\ trace' = <<>>
    /\ before' = FreshTracker
    /\ UNCHANGED now

Next ==
    \/ Tick
    \/ Construct
    \/ AsDict
    \/ Supply
    \/ FromParameters
    \/ FromStoryString
    \/ Deserialise
    \/ LoadPickled
    \/ AsStoryString
    \/ FromEncodedStory
    \/ Return

Spec == Init /\ [][Next]_vars

\* the callers that compare events
NextEq ==
    \/ Construct
    \/ Compare
    \/ Return

SpecEq == Init /\ [][NextEq]_vars

\* the callers that apply events to a tracker
NextApply ==
    \/ Construct
    \/ TakeTracker
    \/ ApplyStep
    \/ Return

SpecApply == Init /\ [][NextApply]_vars

----------------------------------------------------------------------------
(* Properties *)

\* the tag of the last decode matches no class and is not the legacy tag
UnknownTag == event_name # None /\ event_name \notin Variants /\ event_name # "topic"

\* the last decode was given the record as_dict returned for ev
RoundTrip == pc = "decoded" /\ recFrom = "as_dict"

\* C1: deserialise_events never raises; it returns, in order, the events of
\* exactly those entries that from_parameters decodes to an event.
C1_BatchNeverAborts ==
    pc = "deserialised" =>
        /\ out.kind = "ok"
        /\ \E u \in UUIDs :
              LET decodable(e) == /\ "event" \in DOMAIN e
                                  /\ from_parameters(e, None, now, u).kind = "ok"
                  good == SelectSeq(batch, decodable)
              IN out.val = [i \in 1..Len(good) |->
                               from_parameters(good[i], None, now, u).val[1]]

\* C2 as stated: from_parameters of an unknown tag raises the unknown-event-
\* type error without a fallback and returns an instance of the fallback with
\* one; a registered tag resolves to its own class.
C2_UnknownTagFallback ==
    pc = "decoded" =>
        /\ (UnknownTag /\ default = None) => out = Raise("UnknownEventType")
        /\ (UnknownTag /\ default # None) =>
               out.kind = "ok" /\ out.val[1].type = default
        /\ event_name \in Variants => event_class = event_name

\* the decoder of class cls fails on record r for want of an input it parses
DecoderFails(cls, r) ==
    \/ cls = "reminder" /\ parser_parse(PGet(r, "date_time", None)).kind = "raise"
    \/ cls = "user" /\ PGet(r, "parse_data", NoneDict) = NoneDict

\* C2 amended: from_parameters of an unknown tag raises the unknown-event-type
\* error without a fallback; with a fallback the record is decoded by the
\* fallback class, which returns an instance of the fallback unless its
\* decoder fails on the record (a ReminderScheduled fallback without a
\* parsable date_time, a UserUttered fallback without parse_data), and then
\* that decoder's error is raised, never the unknown-event-type error; a
\* registered tag resolves to its own class, never to the fallback.
C2_UnknownTagFallbackAmended ==
    pc = "decoded" =>
        /\ (UnknownTag /\ default = None) => out = Raise("UnknownEventType")
        /\ (UnknownTag /\ default # None) =>
               /\ event_class = default
               /\ IF DecoderFails(default, rec)
                  THEN out.kind = "raise" /\ out.err # "UnknownEventType"
                  ELSE out.kind = "ok" /\ out.val[1].type = default
        /\ event_name \in Variants =>
               /\ event_class = event_name
               /\ out.kind = "ok" => out.val[1].type = event_name

\* C2 witness: an unknown tag decoded with the fallback ActionExecuted
C2_Witness ==
    /\ pc = "decoded"
    /\ event_name = "bogus"
    /\ default = "action"
    /\ out.kind = "ok"
    /\ out.val[1].type = "action"

\* the keys the claim names as required
RequiredKeys(tag) ==
    CASE tag = "slot" -> {"name"}
      [] tag = "action" -> {"name"}
      [] tag = "reminder" -> {"date_time"}
      [] OTHER -> {}

\* C3: from_parameters of a record of a registered tag that lacks a required
\* key raises the typed malformed-event error.
C3_MissingFieldMalformed ==
    (/\ pc = "decoded"
     /\ event_name \in Variants
     /\ RequiredKeys(event_name) \ DOMAIN rec # {})
        => out = Raise("MalformedEvent")

\* C4: decoding the legacy tag `topic' returns None and raises nothing, from
\* a record and from a story line, with or without a fallback.
C4_TopicIgnored ==
    (pc \in {"decoded", "story_decoded"} /\ event_name = "topic")
        => out = Nothing /\ event_class = None

\* C4 witness: a `topic' record decoded with a fallback
C4_Witness ==
    /\ pc = "decoded"
    /\ event_name = "topic"
    /\ default = "action"
    /\ out = Nothing

\* C5: as_dict has no `metadata' key when the event's metadata is empty, has
\* the metadata unchanged when it is not, and always has the tag under
\* `event' and the timestamp under `timestamp'.
C5_MetadataOmission ==
    pc = "encoded" =>
        /\ rec.event = ev.type
        /\ rec.timestamp = ev.timestamp
        /\ IF metadata_of(ev) = {}
           THEN "metadata" \notin DOMAIN rec
           ELSE "metadata" \in DOMAIN rec /\ rec.metadata = metadata_of(ev)

\* C6: from_parameters(e.as_dict()) is an event of e's class that equals e.
C6_DictRoundTrip ==
    RoundTrip =>
        /\ out.kind = "ok"
        /\ out.val[1].type = ev.type
        /\ Event_eq(out.val[1], ev)
        /\ Event_eq(ev, out.val[1])

\* the payload attributes of the variant catalogue
PayloadFields(tag) ==
    CASE tag = "user" -> {"text", "intent", "entities", "parse_data",
                          "input_channel", "message_id"}
      [] tag = "bot" -> {"text", "data"}
      [] tag = "slot" -> {"key", "value"}
      [] tag = "reminder" -> {"action_name", "trigger_date_time", "name",
                              "kill_on_user_message"}
      [] tag \in {"cancel_reminder", "followup"} -> {"action_name"}
      [] tag \in {"action", "action_execution_rejected"} ->
             {"action_name", "policy", "confidence"}
      [] tag = "agent" -> {"text", "data"}
      [] tag = "form" -> {"name"}
      [] tag = "form_validation" -> {"validate"}
      [] tag = "export" -> {"path"}
      [] OTHER -> {}

\* C7: every payload attribute of e has the same value in
\* from_parameters(e.as_dict()).
C7_DictRoundTripLossless ==
    RoundTrip =>
        /\ out.kind = "ok"
        /\ \A f \in PayloadFields(ev.type) : out.val[1][f] = ev[f]

\* C8: a timestamp given to a constructor, or present in a decoded record, is
\* the event's timestamp, 0 included.
C8_TimestampKept ==
    /\ (pc = "constructed" /\ tsArg # NoneTs) => ev.timestamp = tsArg
    /\ (pc = "decoded" /\ out.kind = "ok" /\ "timestamp" \in DOMAIN rec)
           => out.val[1].timestamp = rec.timestamp

\* C9: two events that compare equal have equal hashes.
C9_EqImpliesHashEq ==
    (pc = "compared" /\ cmp.eq) => cmp.hash_eq

\* the identity fields of the variant table
Identity(e) ==
    CASE e.type = "user" -> <<e.text, Get(e.intent, "name", None), e.entities>>
      [] e.type = "bot" -> <<e.text, {p \in e.data : p[2] # None},
                             {p \in metadata_of(e) : p[2] # None}>>
      [] e.type = "slot" -> <<e.key, e.value>>
      [] e.type = "reminder" -> <<e.name>>
      [] e.type \in {"followup", "action", "action_execution_rejected"} ->
             <<e.action_name>>
      [] e.type = "agent" -> <<e.text, e.data>>
      [] e.type = "form" -> <<e.name>>
      [] OTHER -> <<>>

\* C10: ev == ev2 exactly when both are of the same variant and agree on the
\* identity fields of the variant table.
C10_EqualityFollowsTable ==
    pc = "compared" =>
        (cmp.eq <=> (ev.type = ev2.type /\ Identity(ev) = Identity(ev2)))

\* C10 witness: two ActionExecuted of one action name that differ in policy,
\* confidence, timestamp and metadata compare equal
C10_Witness ==
    /\ pc = "compared"
    /\ ev.type = "action" /\ ev2.type = "action"
    /\ ev.action_name = ev2.action_name
    /\ ev.policy # ev2.policy
    /\ ev.confidence # ev2.confidence
    /\ ev.timestamp # ev2.timestamp
    /\ metadata_of(ev) # metadata_of(ev2)
    /\ cmp.eq

\* C11: from_story_string under the tag `slot' returns one SlotSet per key of
\* the parameters, with that key's value, in the iteration order of the keys,
\* and returns None without raising for empty parameters.
C11_SlotStoryLine ==
    (pc = "story_decoded" /\ event_name = "slot") =>
        IF Len(key_order) = 0
        THEN out = Nothing
        ELSE /\ out.kind = "ok"
             /\ Len(out.val) = Len(key_order)
             /\ \A i \in 1..Len(key_order) :
                   /\ out.val[i].type = "slot"
                   /\ out.val[i].key = key_order[i]
                   /\ out.val[i].value = rec[key_order[i]]

\* C11 witness: the line slot{"b": .., "a": ..} decoded to the SlotSet of b
\* followed by the SlotSet of a
C11_Witness ==
    /\ pc = "story_decoded"
    /\ event_name = "slot"
    /\ key_order = <<"b", "a">>
    /\ out.kind = "ok"
    /\ Len(out.val) = 2
    /\ out.val[1].key = "b" /\ out.val[2].key = "a"


\* the variants whose story line is their tag, alone or followed by a JSON
\* object of their payload
StoryRoundTripVariants ==
    {"slot", "reminder", "cancel_reminder", "followup", "form", "restart",
     "rewind", "undo", "reset_slots", "pause", "resume", "export"}

\* C12: for every event e of a keyed or parameterless representable variant,
\* decoding the name and the JSON parameters of e.as_story_string() with
\* Event.from_story_string yields a list of exactly one event, equal to e
\* under the identity rule of its class.
C12_StoryRoundTrip ==
    (pc = "story_decoded" /\ recFrom = "as_story_string"
        /\ ev.type \in StoryRoundTripVariants) =>
        /\ out.kind = "ok"
        /\ Len(out.val) = 1
        /\ Event_eq(out.val[1], ev)
        /\ Event_eq(ev, out.val[1])

\* a reminder with a name outside ASCII came back through its story line
C12_Witness ==
    /\ pc = "story_decoded" /\ recFrom = "as_story_string"
    /\ ev.type = "reminder" /\ ev.name = "rappel_é"
    /\ out.kind = "ok" /\ Len(out.val) = 1
    /\ out.val[1].type = "reminder" /\ out.val[1].name = "rappel_é"

\* the classes whose as_story_string returns None
NotRepresentable ==
    {"bot", "agent", "form_validation", "action_execution_rejected"}

\* C13: as_story_string returns None for every BotUttered, AgentUttered,
\* FormValidation and ActionExecutionRejected event, and a text for every
\* event of every other class, a UserUttered without intent and text
\* included.
C13_StoryTextOrAbsent ==
    pc = "story_encoded" =>
        IF ev.type \in NotRepresentable THEN story.kind = "none"
        ELSE story.kind = "text"

\* the classes whose story line carries a JSON object of their payload
KeyedVariants == {"slot", "reminder", "cancel_reminder", "followup"}

\* the texts of a story line's JSON object, as written between the quotes
StoryTokens(st) ==
    {m[2] : m \in {tok \in {st.props[i][j] : i \in 1..Len(st.props),
                                              j \in {1, 2}} :
                       tok[1] = "string"}}

\* the payload texts of an event of a keyed variant
PayloadTexts(self) ==
    CASE self.type = "slot" -> {self.key, self.value}
      [] self.type = "reminder" -> {self.action_name, self.name}
      [] self.type = "cancel_reminder" -> {self.action_name}
      [] self.type = "followup" -> {self.action_name}

\* C14: the story line of an event of a keyed variant is its tag followed by
\* a JSON object written without ASCII escaping: every payload text, one
\* with a character outside ASCII included, is in the line as it is.
C14_StoryNotAsciiEscaped ==
    (pc = "story_encoded" /\ ev.type \in KeyedVariants) =>
        /\ story.kind = "text"
        /\ story.name = ev.type
        /\ story.json
        /\ (PayloadTexts(ev) \ {None}) \subseteq StoryTokens(story)


\* s is the beginning of t
IsPrefix(s, t) == Len(s) <= Len(t) /\ \A i \in 1..Len(s) : s[i] = t[i]

\* C15: UserUttered.apply_to first sets the tracker's latest message to the
\* event and only then clears the follow-up action, ActionExecuted.apply_to
\* first sets the latest action name and only then clears the follow-up
\* action; after either, whatever the tracker was before, no follow-up action
\* is pending.
C15_ApplyOrder ==
    /\ (pc \in {"applying", "applied"} /\ ev.type = "user") =>
          /\ IsPrefix(trace, <<"latest_message", "clear_followup_action">>)
          /\ Len(trace) >= 1 => tracker.latest_message = ev
          /\ Len(trace) = 1 => tracker.followup_action = before.followup_action
          /\ pc = "applied" =>
                Len(trace) = 2 /\ tracker.followup_action = None
    /\ (pc \in {"applying", "applied"} /\ ev.type = "action") =>
          /\ IsPrefix(trace, <<"set_latest_action_name",
                               "clear_followup_action">>)
          /\ Len(trace) >= 1 => tracker.latest_action_name = ev.action_name
          /\ Len(trace) = 1 => tracker.followup_action = before.followup_action
          /\ pc = "applied" =>
                Len(trace) = 2 /\ tracker.followup_action = None

\* a UserUttered was applied to a tracker with a follow-up action pending
C15_Witness ==
    /\ pc = "applied" /\ ev.type = "user"
    /\ before.followup_action = "a"
    /\ trace = <<"latest_message", "clear_followup_action">>
    /\ tracker.latest_message = ev
    /\ tracker.followup_action = None

\* C16: Restarted.apply_to resets the tracker first and then triggers the
\* listen action as follow-up: after it, whatever the tracker was before
\* (another follow-up pending, paused set), the reset has happened and the
\* pending follow-up is the listen action.
C16_RestartThenListen ==
    (pc \in {"applying", "applied"} /\ ev.type = "restart") =>
        /\ IsPrefix(trace, <<"_reset", "trigger_followup_action">>)
        /\ Len(trace) = 1 => tracker = FreshTracker
        /\ pc = "applied" =>
              /\ Len(trace) = 2
              /\ tracker = [FreshTracker EXCEPT
                                !.followup_action = ACTION_LISTEN_NAME]

\* a Restarted was applied to a paused tracker with another follow-up pending
C16_Witness ==
    /\ pc = "applied" /\ ev.type = "restart"
    /\ before.paused /\ before.followup_action = "a"
    /\ ~tracker.paused
    /\ tracker.followup_action = ACTION_LISTEN_NAME


\* C17: reading the metadata of an event never yields None: it yields the
\* empty dict for an event constructed without metadata or with None, for
\* one decoded by from_parameters or from_story_string from parameters whose
\* metadata is missing or None, and for an instance without the _metadata
\* attribute.
C17_MetadataNeverNone ==
    /\ ev.type # None => metadata_of(ev) # NoneDict
    /\ out.kind = "ok" =>
          \A i \in 1..Len(out.val) : metadata_of(out.val[i]) # NoneDict
    /\ (pc = "constructed" /\ mdArg = NoneDict) => metadata_of(ev) = {}
    /\ (pc \in {"decoded", "story_decoded"} /\ out.kind = "ok"
           /\ PGet(rec, "metadata", NoneDict) = NoneDict) =>
          \A i \in 1..Len(out.val) : metadata_of(out.val[i]) = {}

\* a record whose metadata is null was decoded
C17_Witness ==
    /\ pc = "decoded"
    /\ "metadata" \in DOMAIN rec /\ rec.metadata = NoneDict
    /\ out.kind = "ok" /\ Len(out.val) = 1
    /\ metadata_of(out.val[1]) = {}

\* f maps the positions of the output to strictly increasing positions of
\* the input
StrictlyIncreasing(f) ==
    \A i, j \in DOMAIN f : i < j => f[i] < f[j]

\* C18: when deserialise_events returns, its output is an order-preserving
\* image of a subsequence of its input: the i-th event is what
\* from_parameters makes of an entry with an `event' key that comes after
\* the entry of the event before it, so every entry gives at most one
\* event, an entry without `event' gives none and is no error, and every
\* event comes from an entry.
C18_BatchOrderPreserved ==
    (pc = "deserialised" /\ out.kind = "ok") =>
        /\ Len(out.val) <= Len(batch)
        /\ \E f \in [1..Len(out.val) -> 1..Len(batch)] :
              /\ StrictlyIncreasing(f)
              /\ \A i \in 1..Len(out.val) :
                    /\ "event" \in DOMAIN batch[f[i]]
                    /\ \E u \in UUIDs :
                          from_parameters(batch[f[i]], None, now, u)
                              = Ok(<<out.val[i]>>)

\* a list whose second entry has no `event' key was decoded to the events
\* of its first and third entries, in that order
C18_Witness ==
    /\ pc = "deserialised" /\ out.kind = "ok"
    /\ Len(batch) = 3 /\ "event" \notin DOMAIN batch[2]
    /\ Len(out.val) = 2
    /\ out.val[1].type = "slot" /\ out.val[1].key = "a"
    /\ out.val[2].type = "slot" /\ out.val[2].key = "b"

====
